---- MODULE Spec2Model ----
(***************************************************************************)
(* PIFP protocol contract (contracts/pifp_protocol): the persistent keyed  *)
(* store of storage.rs and the registry / verification entry points that   *)
(* test.rs drives through PifpProtocolClient.                              *)
(*                                                                         *)
(* One action is one top-level contract invocation.  The host runs an      *)
(* invocation to completion or rolls all of its writes back when it        *)
(* panics, so an action either installs the store the entry point computed *)
(* or leaves the store as it was.                                          *)
(***************************************************************************)
EXTENDS Integers, Sequences, FiniteSets, TLC

VARIABLES persistent, now, last, issued, configured, inflight

vars == <<persistent, now, last, issued, configured, inflight>>

(***************************************************************************)
(* Bounds of the model.                                                    *)
(***************************************************************************)
\* Registrations explored by Spec.
MaxProjects == 2
\* Width in bits standing in for the 64 bits of the u64 project counter.
CounterWidth == 3

U64Max == 2 ^ CounterWidth - 1

Address == {"a1", "a2"}
Hash == {"h1", "h2"}
Goal == {-1, 0, 1}
\* Ledger timestamps and the deadlines offered at registration.
Timestamp == {0, 1, 2}
Deadline == {0, 1, 2}
ProjectId == 0 .. MaxProjects
\* What `current + 1` does at u64::MAX depends on the build profile:
\* with overflow checks it panics, without it wraps.
OverflowMode == {"panic", "wrap"}

(***************************************************************************)
(* types.rs, as far as test.rs shows it.                                   *)
(***************************************************************************)
Funding == "Funding"
Completed == "Completed"
ProjectStatus == {Funding, Completed}

(***************************************************************************)
(* Panic messages / failure kinds.                                         *)
(***************************************************************************)
OK == "ok"
InvalidGoal == "goal must be positive"
InvalidDeadline == "deadline must be in the future"
NotFound == "project not found"
NotConfigured == "oracle not set"
AlreadyCompleted == "project already completed"
HashMismatch == "proof verification failed: hash mismatch"
Unauthorized == "unauthorized"
Overflow == "attempt to add with overflow"

(***************************************************************************)
(* storage.rs: DataKey and env.storage().persistent().                     *)
(***************************************************************************)
ProjectCount == <<"ProjectCount">>
Project(id) == <<"Project", id>>
OracleKey == <<"OracleKey">>

EmptyStorage == [k \in {} |-> 0]

has(store, key) == key \in DOMAIN store

set(store, key, val) ==
    [k \in (DOMAIN store) \cup {key} |-> IF k = key THEN val ELSE store[k]]

\* The counter read by get_and_increment_project_id: absent reads as 0.
project_count(store) ==
    IF has(store, ProjectCount) THEN store[ProjectCount] ELSE 0

\* Faulty allocation: writes the counter back without the increment.
get_and_increment_project_id_no_increment(store, mode) ==
    LET current == project_count(store)
    IN  [panicked |-> FALSE, err |-> OK, id |-> current,
         store |-> set(store, ProjectCount, current)]

\* Faulty allocation: unwrap() instead of unwrap_or(0), so the first
\* allocation panics on the absent counter.
get_and_increment_project_id_unwrap(store, mode) ==
    IF ~ has(store, ProjectCount)
    THEN [panicked |-> TRUE, err |-> "unwrap on None",
          id |-> 0, store |-> store]
    ELSE [panicked |-> FALSE, err |-> OK, id |-> store[ProjectCount],
          store |-> set(store, ProjectCount,
                        (store[ProjectCount] + 1) % (U64Max + 1))]

\* Faulty allocation: returns the post-increment value.
get_and_increment_project_id_post(store, mode) ==
    LET current == project_count(store)
    IN  [panicked |-> FALSE, err |-> OK, id |-> (current + 1) % (U64Max + 1),
         store |-> set(store, ProjectCount, (current + 1) % (U64Max + 1))]

\* storage.rs get_and_increment_project_id.  `panicked` is the overflow
\* panic of `current + 1` in a build with overflow checks.
get_and_increment_project_id(store, mode) ==
    LET current == project_count(store)
    IN  IF current + 1 > U64Max /\ mode = "panic"
        THEN [panicked |-> TRUE, err |-> Overflow, id |-> current, store |-> store]
        ELSE [panicked |-> FALSE, err |-> OK, id |-> current,
              store |-> set(store, ProjectCount, (current + 1) % (U64Max + 1))]

\* Faulty save: does not overwrite an entry that already exists.
save_project_if_absent(store, project) ==
    IF has(store, Project(project.id)) THEN store
    ELSE set(store, Project(project.id), project)

\* Faulty save: the key is built from a constant instead of project.id.
save_project_fixed_key(store, project) == set(store, Project(0), project)

\* storage.rs save_project.
save_project(store, project) == set(store, Project(project.id), project)

\* Faulty load: the key is built from a constant instead of id.
load_project_fixed_key(store, id) ==
    IF has(store, Project(0))
    THEN [panicked |-> FALSE, err |-> OK, project |-> store[Project(0)]]
    ELSE [panicked |-> TRUE, err |-> NotFound]

\* storage.rs load_project.
load_project(store, id) ==
    IF has(store, Project(id))
    THEN [panicked |-> FALSE, err |-> OK, project |-> store[Project(id)]]
    ELSE [panicked |-> TRUE, err |-> NotFound]

\* Faulty write: keeps the oracle that is already stored.
set_oracle_if_absent(store, oracle) ==
    IF has(store, OracleKey) THEN store ELSE set(store, OracleKey, oracle)

\* storage.rs set_oracle.
set_oracle(store, oracle) == set(store, OracleKey, oracle)

\* Faulty read: falls back to a default address instead of panicking.
get_oracle_default(store) ==
    IF has(store, OracleKey)
    THEN [panicked |-> FALSE, err |-> OK, oracle |-> store[OracleKey]]
    ELSE [panicked |-> FALSE, err |-> OK, oracle |-> "a1"]

\* storage.rs get_oracle.
get_oracle(store) ==
    IF has(store, OracleKey)
    THEN [panicked |-> FALSE, err |-> OK, oracle |-> store[OracleKey]]
    ELSE [panicked |-> TRUE, err |-> NotConfigured]

(***************************************************************************)
(* Entry points of the contract (lib.rs), each as the outcome of one       *)
(* invocation: res is OK or the panic message, ret the returned value,     *)
(* store the storage the invocation leaves when it does not panic.         *)
(***************************************************************************)
\* The two builds differ only when the counter already holds u64::MAX.
OverflowOutcomes(store) ==
    IF has(store, ProjectCount) /\ store[ProjectCount] = U64Max
    THEN OverflowMode ELSE {"wrap"}

Fail(store, err) == [res |-> err, store |-> store]

\* Faulty registration: allocates the id before it validates the inputs,
\* so a rejected call has already written the counter when it panics.
register_project_allocate_first(store, time, creator, goal, proof_hash, deadline, mode) ==
    LET alloc == get_and_increment_project_id(store, mode)
        project == [id |-> alloc.id, creator |-> creator, goal |-> goal,
                    balance |-> 0, proof_hash |-> proof_hash,
                    deadline |-> deadline, status |-> Funding]
    IN  IF alloc.panicked THEN Fail(alloc.store, alloc.err)
        ELSE IF goal <= 0 THEN Fail(alloc.store, InvalidGoal)
        ELSE IF deadline <= time THEN Fail(alloc.store, InvalidDeadline)
        ELSE [res |-> OK, ret |-> project,
              store |-> save_project(alloc.store, project)]

register_project(store, time, creator, goal, proof_hash, deadline, mode) ==
    IF goal <= 0 THEN Fail(store, InvalidGoal)
    ELSE IF deadline <= time THEN Fail(store, InvalidDeadline)
    ELSE LET alloc == get_and_increment_project_id(store, mode)
             project == [id |-> alloc.id, creator |-> creator, goal |-> goal,
                         balance |-> 0, proof_hash |-> proof_hash,
                         deadline |-> deadline, status |-> Funding]
         IN  IF alloc.panicked THEN Fail(store, alloc.err)
             ELSE [res |-> OK, ret |-> project,
                   store |-> save_project(alloc.store, project)]

get_project(store, id) ==
    LET loaded == load_project(store, id)
    IN  IF loaded.panicked THEN Fail(store, loaded.err)
        ELSE [res |-> OK, ret |-> loaded.project, store |-> store]

set_oracle_entry(store, admin, oracle) ==
    [res |-> OK, store |-> set_oracle(store, oracle)]

\* Faulty verification: compares the hash before it looks at the status.
verify_and_release_hash_first(store, caller, project_id, submitted_hash) ==
    LET o == get_oracle(store)
    IN  IF o.panicked THEN Fail(store, o.err)
        ELSE IF caller # o.oracle THEN Fail(store, Unauthorized)
        ELSE LET loaded == load_project(store, project_id)
             IN  IF loaded.panicked THEN Fail(store, loaded.err)
                 ELSE IF submitted_hash # loaded.project.proof_hash
                      THEN Fail(store, HashMismatch)
                 ELSE IF loaded.project.status = Completed
                      THEN Fail(store, AlreadyCompleted)
                 ELSE [res |-> OK,
                       store |-> save_project(store,
                                   [loaded.project EXCEPT !.status = Completed])]

verify_and_release(store, caller, project_id, submitted_hash) ==
    LET o == get_oracle(store)
    IN  IF o.panicked THEN Fail(store, o.err)
        ELSE IF caller # o.oracle THEN Fail(store, Unauthorized)
        ELSE LET loaded == load_project(store, project_id)
             IN  IF loaded.panicked THEN Fail(store, loaded.err)
                 ELSE IF loaded.project.status = Completed
                      THEN Fail(store, AlreadyCompleted)
                 ELSE IF submitted_hash # loaded.project.proof_hash
                      THEN Fail(store, HashMismatch)
                 ELSE [res |-> OK,
                       store |-> save_project(store,
                                   [loaded.project EXCEPT !.status = Completed])]

\* The host commits the writes of an invocation that returns and discards
\* the writes of one that panics.
Commit(store, outcome) == IF outcome.res = OK THEN outcome.store ELSE store

(***************************************************************************)
(* State machine.  issued lists the ids the successful registrations     *)
(* returned and configured holds the oracle of the latest successful       *)
(* set_oracle call; inflight is, per caller, the register_project          *)
(* invocation that caller has submitted to the host.                       *)
(***************************************************************************)
Idle == [state |-> "idle"]

Init ==
    /\ persistent = EmptyStorage
    /\ now = 0
    /\ last = [op |-> "init", res |-> OK]
    /\ issued = <<>>
    /\ configured = <<>>
    /\ inflight = [c \in Address |-> Idle]

RegisterProject(creator, goal, proof_hash, deadline, mode) ==
    LET out == register_project(persistent, now, creator, goal, proof_hash,
                                deadline, mode)
    IN  /\ persistent' = Commit(persistent, out)
        /\ last' = IF out.res = OK
                   THEN [op |-> "register_project", creator |-> creator,
                         goal |-> goal, proof_hash |-> proof_hash,
                         deadline |-> deadline, res |-> OK, ret |-> out.ret]
                   ELSE [op |-> "register_project", creator |-> creator,
                         goal |-> goal, proof_hash |-> proof_hash,
                         deadline |-> deadline, res |-> out.res]
        /\ issued' = IF out.res = OK THEN Append(issued, out.ret.id) ELSE issued
        /\ UNCHANGED <<now, configured>>

GetProject(id) ==
    LET out == get_project(persistent, id)
    IN  /\ persistent' = Commit(persistent, out)
        /\ last' = IF out.res = OK
                   THEN [op |-> "get_project", id |-> id, res |-> OK,
                         ret |-> out.ret]
                   ELSE [op |-> "get_project", id |-> id, res |-> out.res]
        /\ UNCHANGED <<now, issued, configured>>

SetOracle(admin, oracle) ==
    LET out == set_oracle_entry(persistent, admin, oracle)
    IN  /\ persistent' = Commit(persistent, out)
        /\ last' = [op |-> "set_oracle", admin |-> admin, oracle |-> oracle,
                    res |-> out.res]
        /\ configured' = IF out.res = OK THEN <<oracle>> ELSE configured
        /\ UNCHANGED <<now, issued>>

VerifyAndRelease(caller, id, hash) ==
    LET out == verify_and_release(persistent, caller, id, hash)
    IN  /\ persistent' = Commit(persistent, out)
        /\ last' = [op |-> "verify_and_release", caller |-> caller, id |-> id,
                    hash |-> hash, res |-> out.res]
        /\ UNCHANGED <<now, issued, configured>>

\* The ledger timestamp advances between invocations.
AdvanceTime ==
    /\ now + 1 \in Timestamp
    /\ now' = now + 1
    /\ last' = [op |-> "advance_time", res |-> OK]
    /\ UNCHANGED <<persistent, issued, configured, inflight>>

Register ==
    \E creator \in Address, goal \in Goal, proof_hash \in Hash,
       deadline \in Deadline, mode \in OverflowOutcomes(persistent) :
        /\ Len(issued) < MaxProjects
        /\ RegisterProject(creator, goal, proof_hash, deadline, mode)
        /\ UNCHANGED inflight

Get == \E id \in ProjectId : GetProject(id) /\ UNCHANGED inflight

Configure ==
    \E admin \in Address, oracle \in Address :
        SetOracle(admin, oracle) /\ UNCHANGED inflight

Verify ==
    \E caller \in Address, id \in ProjectId, hash \in Hash :
        VerifyAndRelease(caller, id, hash) /\ UNCHANGED inflight

Next == Register \/ Get \/ Configure \/ Verify \/ AdvanceTime

Spec == Init /\ [][Next]_vars

(***************************************************************************)
(* Registrations up to and past the capacity of the counter, which has     *)
(* CounterWidth bits here.                                                 *)
(***************************************************************************)
RegisterToOverflow ==
    \E creator \in Address, proof_hash \in Hash,
       mode \in OverflowOutcomes(persistent) :
        /\ Len(issued) < U64Max + 2
        /\ RegisterProject(creator, 1, proof_hash, now + 1, mode)
        /\ UNCHANGED inflight

NextOverflow == RegisterToOverflow \/ Get

SpecOverflow == Init /\ [][NextOverflow]_vars

(***************************************************************************)
(* Concurrent registrations.  Each caller submits a register_project       *)
(* invocation to the host; the host runs the submitted invocations one at  *)
(* a time, each to completion, in any order, and hands the result back.    *)
(***************************************************************************)
Submit(caller, goal, proof_hash, deadline) ==
    /\ inflight[caller] = Idle
    /\ inflight' = [inflight EXCEPT ![caller] =
                       [state |-> "pending", goal |-> goal,
                        proof_hash |-> proof_hash, deadline |-> deadline]]
    /\ UNCHANGED <<persistent, now, last, issued, configured>>

Execute(caller) ==
    /\ inflight[caller].state = "pending"
    /\ Len(issued) < MaxProjects
    /\ \E mode \in OverflowOutcomes(persistent) :
          RegisterProject(caller, inflight[caller].goal,
                          inflight[caller].proof_hash,
                          inflight[caller].deadline, mode)
    /\ inflight' = [inflight EXCEPT ![caller] =
                       IF last'.res = OK
                       THEN [state |-> "done", res |-> OK, ret |-> last'.ret]
                       ELSE [state |-> "done", res |-> last'.res]]

Acknowledge(caller) ==
    /\ inflight[caller].state = "done"
    /\ inflight' = [inflight EXCEPT ![caller] = Idle]
    /\ UNCHANGED <<persistent, now, last, issued, configured>>

SubmitRegistration ==
    \E caller \in Address, goal \in Goal, proof_hash \in Hash,
       deadline \in Deadline : Submit(caller, goal, proof_hash, deadline)

HostRuns == \E caller \in Address : Execute(caller)

ReturnResult == \E caller \in Address : Acknowledge(caller)

NextConcurrent == SubmitRegistration \/ HostRuns \/ ReturnResult \/ AdvanceTime

SpecConcurrent == Init /\ [][NextConcurrent]_vars

(***************************************************************************)
(* Properties.  A step of the contract is identified by last', the call    *)
(* it made and the call's result; the unprimed variables are the state the *)
(* call ran in.                                                            *)
(***************************************************************************)
Range(seq) == {seq[k] : k \in 1 .. Len(seq)}

\* The call of this step was verify_and_release made by the configured
\* oracle itself (the host authenticated the caller as that address).
VerifyByOracle ==
    /\ last'.op = "verify_and_release"
    /\ has(persistent, OracleKey)
    /\ last'.caller = persistent[OracleKey]

\* C1: the ids returned by the successful register_project calls, whatever
\* other calls are interleaved, are 0, 1, 2, ... in call order: the k-th
\* successful registration returns k-1.
C1_IdsSequential == \A k \in 1 .. Len(issued) : issued[k] = k - 1

\* Two registrations succeeded, the second just now, with an oracle
\* configured and a failed or other call in between being possible.
C1_Witness ==
    /\ Len(issued) >= 2
    /\ last.op = "register_project" /\ last.res = OK
    /\ last.ret.id = 1
    /\ has(persistent, OracleKey)

\* C2: a project is created with status Funding, and a project whose status
\* is Completed stays Completed over every later call.
C2_StatusOnlyFundingToCompleted ==
    [][\A id \in ProjectId :
          /\ (~ has(persistent, Project(id)) /\ has(persistent', Project(id)))
                => persistent'[Project(id)].status = Funding
          /\ (has(persistent, Project(id))
                /\ persistent[Project(id)].status = Completed)
                => (has(persistent', Project(id))
                      /\ persistent'[Project(id)].status = Completed)]_vars

\* A project is Completed and a later registration has just succeeded.
C2_Witness ==
    /\ last.op = "register_project" /\ last.res = OK
    /\ \E id \in ProjectId :
          /\ has(persistent, Project(id))
          /\ persistent[Project(id)].status = Completed
          /\ last.ret.id # id

\* C3: with an oracle configured and project id Funding with stored proof
\* hash H, verify_and_release(id, H) by the oracle succeeds and afterwards
\* get_project(id) returns status Completed.
C3_VerifyCompletes ==
    [][(/\ VerifyByOracle
        /\ has(persistent, Project(last'.id))
        /\ persistent[Project(last'.id)].status = Funding
        /\ last'.hash = persistent[Project(last'.id)].proof_hash)
       => (/\ last'.res = OK
           /\ get_project(persistent', last'.id).res = OK
           /\ get_project(persistent', last'.id).ret.status = Completed)]_vars

\* verify_and_release has just succeeded on a project that now reads
\* Completed.
C3_Witness ==
    /\ last.op = "verify_and_release" /\ last.res = OK
    /\ get_project(persistent, last.id).res = OK
    /\ get_project(persistent, last.id).ret.status = Completed

\* C4: with an oracle configured and project id Completed,
\* verify_and_release(id, h) by the oracle fails with AlreadyCompleted for
\* every hash h, equal to the stored proof hash or not.
C4_OneShot ==
    [][(/\ VerifyByOracle
        /\ has(persistent, Project(last'.id))
        /\ persistent[Project(last'.id)].status = Completed)
       => last'.res = AlreadyCompleted]_vars

\* A second verification with a hash other than the stored one was
\* rejected as AlreadyCompleted.
C4_Witness ==
    /\ last.op = "verify_and_release" /\ last.res = AlreadyCompleted
    /\ has(persistent, Project(last.id))
    /\ last.hash # persistent[Project(last.id)].proof_hash

\* C5: with an oracle configured and project id Funding with stored proof
\* hash H, verify_and_release(id, H') with H' # H fails with HashMismatch,
\* leaves the project Funding, and verify_and_release(id, H) on the
\* resulting state still succeeds.
C5_MismatchKeepsFunding ==
    [][(/\ VerifyByOracle
        /\ has(persistent, Project(last'.id))
        /\ persistent[Project(last'.id)].status = Funding
        /\ last'.hash # persistent[Project(last'.id)].proof_hash)
       => (/\ last'.res = HashMismatch
           /\ has(persistent', Project(last'.id))
           /\ persistent'[Project(last'.id)].status = Funding
           /\ verify_and_release(persistent', last'.caller, last'.id,
                  persistent'[Project(last'.id)].proof_hash).res = OK)]_vars

\* A verification with the wrong hash has just been rejected and the
\* project is still Funding.
C5_Witness ==
    /\ last.op = "verify_and_release" /\ last.res = HashMismatch
    /\ has(persistent, Project(last.id))
    /\ persistent[Project(last.id)].status = Funding

\* C6 as stated: verify_and_release on an id that was never registered
\* fails with NotFound, with an oracle set (the oracle calling) and with no
\* oracle ever set alike.
C6_NotFoundRegardlessOfOracle ==
    [][(/\ last'.op = "verify_and_release"
        /\ last'.id \notin Range(issued)
        /\ (has(persistent, OracleKey) => last'.caller = persistent[OracleKey]))
       => last'.res = NotFound]_vars

\* C6 as amended: verify_and_release on an id that was never registered
\* fails with NotFound when an oracle is configured (the oracle calling),
\* and with NotConfigured when no oracle has ever been set, because the
\* oracle is resolved before the project is loaded.
C6_NotFoundAfterOracleResolved ==
    [][(last'.op = "verify_and_release" /\ last'.id \notin Range(issued))
       => (/\ VerifyByOracle => last'.res = NotFound
           /\ ~ has(persistent, OracleKey) => last'.res = NotConfigured)]_vars

\* The oracle has just verified an id that was never registered, while
\* another project exists, and got NotFound.
C6_Witness ==
    /\ last.op = "verify_and_release" /\ last.res = NotFound
    /\ last.id \notin Range(issued)
    /\ Len(issued) >= 1
    /\ has(persistent, OracleKey)

\* C7: while no set_oracle call has succeeded, verify_and_release(id, h)
\* fails with NotConfigured for every id and hash, also for an existing
\* Funding project with its own proof hash, and no project changes.
C7_NotConfiguredWithoutOracle ==
    [][(last'.op = "verify_and_release" /\ ~ has(persistent, OracleKey))
       => (last'.res = NotConfigured /\ persistent' = persistent)]_vars

\* With no oracle set, a verification of an existing Funding project with
\* its own proof hash has just been rejected as NotConfigured.
C7_Witness ==
    /\ last.op = "verify_and_release" /\ last.res = NotConfigured
    /\ ~ has(persistent, OracleKey)
    /\ has(persistent, Project(last.id))
    /\ persistent[Project(last.id)].status = Funding
    /\ persistent[Project(last.id)].proof_hash = last.hash

\* C8: register_project fails with InvalidGoal when goal <= 0, with
\* InvalidDeadline when goal > 0 and deadline <= ledger time, and otherwise
\* succeeds returning a project with balance 0, status Funding and the
\* given creator, goal, proof_hash and deadline.
C8_RegisterValidation ==
    [][last'.op = "register_project"
       => (/\ last'.goal <= 0 => last'.res = InvalidGoal
           /\ (last'.goal > 0 /\ last'.deadline <= now)
                 => last'.res = InvalidDeadline
           /\ (last'.goal > 0 /\ last'.deadline > now)
                 => (/\ last'.res = OK
                     /\ last'.ret.balance = 0
                     /\ last'.ret.status = Funding
                     /\ last'.ret.creator = last'.creator
                     /\ last'.ret.goal = last'.goal
                     /\ last'.ret.proof_hash = last'.proof_hash
                     /\ last'.ret.deadline = last'.deadline))]_vars

\* A registration whose deadline lies before the ledger time has just been
\* rejected as InvalidDeadline.
C8_Witness ==
    /\ last.op = "register_project" /\ last.res = InvalidDeadline
    /\ last.goal > 0
    /\ last.deadline < now

\* C9: right after register_project returns P, get_project(P.id) returns P
\* field for field; and load_project(id) changes only when a call saved a
\* project under id, to exactly the value saved: the registered project, or
\* the verified project with status Completed.
C9_RoundTrip ==
    [][/\ (last'.op = "register_project" /\ last'.res = OK)
             => (/\ get_project(persistent', last'.ret.id).res = OK
                 /\ get_project(persistent', last'.ret.id).ret = last'.ret)
       /\ \A id \in ProjectId :
             \/ load_project(persistent', id) = load_project(persistent, id)
             \/ /\ last'.op = "register_project" /\ last'.res = OK
                /\ last'.ret.id = id
                /\ ~ load_project(persistent', id).panicked
                /\ load_project(persistent', id).project = last'.ret
             \/ /\ last'.op = "verify_and_release" /\ last'.res = OK
                /\ last'.id = id
                /\ ~ load_project(persistent, id).panicked
                /\ ~ load_project(persistent', id).panicked
                /\ load_project(persistent', id).project =
                      [load_project(persistent, id).project
                          EXCEPT !.status = Completed]]_vars

\* A second project has just been registered and reads back equal to the
\* returned value.
C9_Witness ==
    /\ last.op = "register_project" /\ last.res = OK
    /\ last.ret.id = 1
    /\ get_project(persistent, 1).res = OK
    /\ get_project(persistent, 1).ret = last.ret

\* C10: get_project(id) fails with NotFound exactly when id was not issued
\* by a successful register_project, that is when id >= ProjectCount, and
\* in either case leaves the whole store unchanged.
C10_GetProjectNotFoundAndFrame ==
    [][last'.op = "get_project"
       => (/\ last'.res \in {OK, NotFound}
           /\ last'.res = NotFound <=> last'.id \notin Range(issued)
           /\ last'.res = NotFound <=> last'.id >= project_count(persistent)
           /\ persistent' = persistent)]_vars

\* get_project has just failed on the first unissued id while a project
\* and an oracle are stored.
C10_Witness ==
    /\ last.op = "get_project" /\ last.res = NotFound
    /\ project_count(persistent) >= 1
    /\ last.id = project_count(persistent)
    /\ has(persistent, OracleKey)

\* Project id reads Completed in the given store.
IsCompleted(store, id) ==
    has(store, Project(id)) /\ store[Project(id)].status = Completed

\* C11: a project becomes Completed only in a successful verify_and_release
\* of that project whose caller is the address of the latest set_oracle
\* call, which is the one stored under OracleKey; a verify_and_release by
\* any other identity, a replaced oracle included, changes nothing.
C11_OnlyCurrentOracleCompletes ==
    [][/\ \A id \in ProjectId :
             (IsCompleted(persistent', id) /\ ~ IsCompleted(persistent, id))
                => (/\ last'.op = "verify_and_release"
                    /\ last'.res = OK
                    /\ last'.id = id
                    /\ configured # <<>>
                    /\ last'.caller = configured[1]
                    /\ has(persistent, OracleKey)
                    /\ last'.caller = persistent[OracleKey])
       /\ (/\ last'.op = "verify_and_release"
           /\ (configured = <<>> \/ last'.caller # configured[1]))
             => (last'.res # OK /\ persistent' = persistent)]_vars

\* The oracle is a2, and a verification by a1 of a Funding project with
\* its own proof hash has just been refused.
C11_Witness ==
    /\ last.op = "verify_and_release" /\ last.res = Unauthorized
    /\ configured = <<"a2">>
    /\ last.caller = "a1"
    /\ has(persistent, Project(last.id))
    /\ persistent[Project(last.id)].status = Funding
    /\ persistent[Project(last.id)].proof_hash = last.hash

\* C12: a failing call has no effect.  After register_project fails
\* (InvalidGoal, InvalidDeadline), verify_and_release fails (NotConfigured,
\* NotFound, AlreadyCompleted, HashMismatch or the host's refusal of the
\* caller) or get_project fails (NotFound), the store is the store before
\* the call and no id was consumed; the failing invocation had written
\* nothing when it panicked, so there was nothing for the host to discard.
C12_FailedCallHasNoEffect ==
    [][last'.res # OK
       => (/\ persistent' = persistent
           /\ project_count(persistent') = project_count(persistent)
           /\ issued' = issued
           /\ configured' = configured
           /\ last'.op = "register_project"
                 => (/\ last'.res \in {InvalidGoal, InvalidDeadline}
                     /\ \A mode \in OverflowOutcomes(persistent) :
                           register_project(persistent, now, last'.creator,
                               last'.goal, last'.proof_hash, last'.deadline,
                               mode).store = persistent)
           /\ last'.op = "verify_and_release"
                 => (/\ last'.res \in {NotConfigured, Unauthorized, NotFound,
                                       AlreadyCompleted, HashMismatch}
                     /\ verify_and_release(persistent, last'.caller,
                            last'.id, last'.hash).store = persistent)
           /\ last'.op = "get_project"
                 => (/\ last'.res = NotFound
                     /\ get_project(persistent, last'.id).store = persistent)
           /\ last'.op \in {"register_project", "verify_and_release",
                            "get_project"})]_vars

\* A registration has just been rejected after an earlier one succeeded,
\* and the counter still reads one.
C12_Witness ==
    /\ last.op = "register_project" /\ last.res = InvalidGoal
    /\ issued = <<0>>
    /\ project_count(persistent) = 1

\* C13: a successful verify_and_release(id, h) changes only the status of
\* Project(id): its other fields, every other project, ProjectCount and
\* OracleKey are as before.
C13_VerifyChangesOnlyStatus ==
    [][(last'.op = "verify_and_release" /\ last'.res = OK)
       => (/\ has(persistent, Project(last'.id))
           /\ persistent' = [persistent EXCEPT
                                ![Project(last'.id)].status = Completed]
           /\ DOMAIN persistent' = DOMAIN persistent
           /\ \A k \in DOMAIN persistent :
                 k # Project(last'.id) => persistent'[k] = persistent[k]
           /\ persistent'[Project(last'.id)] =
                 [persistent[Project(last'.id)] EXCEPT !.status = Completed])]_vars

\* Project 0 has just been verified while project 1 is still Funding.
C13_Witness ==
    /\ last.op = "verify_and_release" /\ last.res = OK /\ last.id = 0
    /\ IsCompleted(persistent, 0)
    /\ has(persistent, Project(1))
    /\ persistent[Project(1)].status = Funding

\* C14: once register_project has returned P, get_project(P.id) succeeds
\* in every later state and returns P's id, creator, goal, proof_hash and
\* deadline; no later registration overwrites the entry of an earlier id.
C14_ProjectsPersistImmutable ==
    [][/\ (last'.op = "register_project" /\ last'.res = OK)
             => (/\ ~ has(persistent, Project(last'.ret.id))
                 /\ get_project(persistent', last'.ret.id)
                       = [res |-> OK, ret |-> last'.ret, store |-> persistent'])
       /\ \A id \in ProjectId :
             has(persistent, Project(id))
                => (/\ has(persistent', Project(id))
                    /\ persistent'[Project(id)].id = id
                    /\ persistent'[Project(id)].creator
                          = persistent[Project(id)].creator
                    /\ persistent'[Project(id)].goal
                          = persistent[Project(id)].goal
                    /\ persistent'[Project(id)].proof_hash
                          = persistent[Project(id)].proof_hash
                    /\ persistent'[Project(id)].deadline
                          = persistent[Project(id)].deadline)]_vars

\* A second registration has just succeeded and project 0, completed
\* before it, is still stored under its own id.
C14_Witness ==
    /\ last.op = "register_project" /\ last.res = OK /\ last.ret.id = 1
    /\ get_project(persistent, 0).res = OK
    /\ get_project(persistent, 0).ret.id = 0
    /\ IsCompleted(persistent, 0)

\* C15: the deadline is looked at only by register_project.  With the
\* ledger time at or past the deadline of a Funding project, the oracle's
\* verify_and_release(id, H) with the stored hash still succeeds and sets
\* the status to Completed; get_project and set_oracle succeed as at any
\* other time; and the clock advancing changes nothing that is stored.
C15_DeadlineOnlyAtRegistration ==
    [][/\ (/\ VerifyByOracle
           /\ has(persistent, Project(last'.id))
           /\ persistent[Project(last'.id)].status = Funding
           /\ last'.hash = persistent[Project(last'.id)].proof_hash
           /\ now >= persistent[Project(last'.id)].deadline)
             => (last'.res = OK /\ IsCompleted(persistent', last'.id))
       /\ (/\ last'.op = "get_project"
           /\ has(persistent, Project(last'.id))
           /\ now >= persistent[Project(last'.id)].deadline)
             => (last'.res = OK /\ last'.ret = persistent[Project(last'.id)])
       /\ last'.op = "set_oracle" => last'.res = OK
       /\ last'.op = "advance_time"
             => (now' > now /\ persistent' = persistent)
       /\ now' # now => last'.op = "advance_time"]_vars

\* A project whose deadline the ledger time has passed has just been
\* completed.
C15_Witness ==
    /\ last.op = "verify_and_release" /\ last.res = OK
    /\ IsCompleted(persistent, last.id)
    /\ now > persistent[Project(last.id)].deadline

\* get_oracle answers with the oracle of the latest set_oracle call, and
\* panics exactly while there has been none.
OracleIsLatestSet ==
    IF configured = <<>>
    THEN get_oracle(persistent).panicked
            /\ get_oracle(persistent).err = NotConfigured
    ELSE ~ get_oracle(persistent).panicked
            /\ get_oracle(persistent).oracle = configured[1]

\* C16: set_oracle always succeeds and overwrites: get_oracle returns the
\* address of the most recent set_oracle call and fails with NotConfigured
\* only while set_oracle has never succeeded; the oracle, once set, is
\* never unset; and set_oracle leaves ProjectCount and every project as
\* they were.
C16_SetOracleOverwrites ==
    /\ []OracleIsLatestSet
    /\ [][/\ last'.op = "set_oracle"
                => (/\ last'.res = OK
                    /\ get_oracle(persistent').oracle = last'.oracle
                    /\ persistent' = set(persistent, OracleKey, last'.oracle)
                    /\ \A k \in DOMAIN persistent :
                          k # OracleKey => persistent'[k] = persistent[k]
                    /\ DOMAIN persistent' = DOMAIN persistent \cup {OracleKey})
          /\ has(persistent, OracleKey) => has(persistent', OracleKey)]_vars

\* set_oracle(a2) has just succeeded while a project is stored, and
\* get_oracle answers a2.
C16_Witness ==
    /\ last.op = "set_oracle" /\ last.res = OK /\ last.oracle = "a2"
    /\ configured = <<"a2">>
    /\ get_oracle(persistent).oracle = "a2"
    /\ has(persistent, Project(0))

\* The caller's invocation has returned a project.
Registered(caller) ==
    inflight[caller].state = "done" /\ inflight[caller].res = OK

\* C17: with several register_project invocations in flight and the host
\* running them one at a time in any order, every successful invocation
\* gets an id of its own and its project stays stored under that id, and
\* no update of the counter is lost.
C17_ConcurrentRegistrationsDistinct ==
    /\ \A c1 \in Address, c2 \in Address :
          (c1 # c2 /\ Registered(c1) /\ Registered(c2))
             => inflight[c1].ret.id # inflight[c2].ret.id
    /\ \A c \in Address :
          Registered(c)
             => (/\ inflight[c].ret.creator = c
                 /\ ~ load_project(persistent, inflight[c].ret.id).panicked
                 /\ load_project(persistent, inflight[c].ret.id).project
                       = inflight[c].ret)
    /\ project_count(persistent) = Len(issued)
    /\ \A k \in 1 .. Len(issued) : has(persistent, Project(issued[k]))

\* Both callers hold a returned project, and the host ran a2's invocation
\* before a1's.
C17_Witness ==
    /\ Registered("a1") /\ Registered("a2")
    /\ inflight["a2"].ret.id = 0
    /\ inflight["a1"].ret.id = 1

\* The ids that have a Project entry in the store.
StoredIds(store) == {id \in 0 .. U64Max : has(store, Project(id))}

\* C18: in every reachable state the ids that have a Project entry are
\* exactly 0 .. ProjectCount-1 (none while ProjectCount is absent), and the
\* project under Project(k) has id k, goal > 0 and a status of Funding or
\* Completed.
C18_StoreWellFormed ==
    /\ StoredIds(persistent) = 0 .. project_count(persistent) - 1
    /\ ~ has(persistent, ProjectCount) => StoredIds(persistent) = {}
    /\ \A k \in StoredIds(persistent) :
          /\ persistent[Project(k)].id = k
          /\ persistent[Project(k)].goal > 0
          /\ persistent[Project(k)].status \in ProjectStatus
    /\ \A key \in DOMAIN persistent :
          \/ key = ProjectCount
          \/ key = OracleKey
          \/ \E k \in StoredIds(persistent) : key = Project(k)

\* Two projects are stored, the first Completed and the second Funding.
C18_Witness ==
    /\ project_count(persistent) = 2
    /\ StoredIds(persistent) = {0, 1}
    /\ IsCompleted(persistent, 0)
    /\ persistent[Project(1)].status = Funding

\* C19: the id counter never wraps.  ProjectCount never decreases; at the
\* maximum value of the counter a registration does not store 0 or any
\* smaller value; no registration is issued an id that was issued before,
\* and none overwrites an existing Project entry.
C19_CounterNeverWraps ==
    [][/\ project_count(persistent') >= project_count(persistent)
       /\ (last'.op = "register_project" /\ last'.res = OK)
             => (/\ last'.ret.id \notin Range(issued)
                 /\ ~ has(persistent, Project(last'.ret.id)))]_vars

\* C20: in every reachable state, if any project is Completed then
\* OracleKey is set, so get_oracle does not fail; and a project becomes
\* Completed only by a successful verify_and_release of it whose submitted
\* hash equals the project's stored proof hash.
C20_CompletedImpliesOracleAndHash ==
    /\ []((\E id \in StoredIds(persistent) : IsCompleted(persistent, id))
             => (/\ has(persistent, OracleKey)
                 /\ get_oracle(persistent).err # NotConfigured))
    /\ [][\A id \in ProjectId :
             (IsCompleted(persistent', id) /\ ~ IsCompleted(persistent, id))
                => (/\ last'.op = "verify_and_release"
                    /\ last'.res = OK
                    /\ last'.id = id
                    /\ has(persistent, Project(id))
                    /\ last'.hash = persistent[Project(id)].proof_hash
                    /\ last'.hash = persistent'[Project(id)].proof_hash)]_vars

\* A project with proof hash h2 has just been completed by a verification
\* that submitted h2, and an oracle is stored.
C20_Witness ==
    /\ last.op = "verify_and_release" /\ last.res = OK /\ last.hash = "h2"
    /\ IsCompleted(persistent, last.id)
    /\ persistent[Project(last.id)].proof_hash = "h2"
    /\ has(persistent, OracleKey)

====
